---- MODULE Spec2Model ----
(***************************************************************************)
(* Model of pybodytrack/BodyTracking.py: the capture loop (start,          *)
(* startbackup, startbackup2), the background worker                       *)
(* (_processing_thread_func), stop, set_times and the readers of the       *)
(* TimeSeries.  Frames are identified by their position in the source      *)
(* (frame k is the k-th frame of the stream); 0 stands for None.           *)
(* One frame lasts one second of video, so CAP_PROP_POS_MSEC / 1000 is the *)
(* number of frames read so far.                                           *)
(***************************************************************************)
EXTENDS Integers, Sequences, FiniteSets, TLC

\* ---- bounds of the model ----
NumFrames == 2      \* frames the video source can deliver
MaxCalls  == 2      \* process_frame calls the worker makes in one session
MaxBlock  == 2      \* largest block size passed as fps
MaxSec    == 1      \* largest argument of filter_interval

\* ---- arguments passed to the aggregators ----
Totals == {6}                 \* total_movement
LandmarkCounts == {-1, 0, 2}  \* num_landmarks

\* ---- None values ----
NoFrame == 0        \* frame_to_process / latest_processed_frame = None
NoTime  == -1       \* starttime / endtime = None

VARIABLES
    mode,                    \* VideoMode.CAMERA or VideoMode.VIDEO
    cap,                     \* the cv2.VideoCapture: "unopened", "open", "released"
    pos,                     \* frames read so far (source position, in seconds)
    starttime, endtime,      \* time window of set_times
    frame_to_process,        \* pending slot
    latest_processed_frame,  \* latest-processed slot
    stop_processing,         \* stop flag
    latest_frame_lock,       \* "free", "main" or "worker"
    processing_thread,       \* threading.Thread: "initial", "started", "stopped"
    rows,                    \* the TimeSeries of the tracker
    now,                     \* wall clock, in frame intervals
    processed,               \* frames passed to process_frame, in call order
    callsAtStop,             \* process_frame calls made when the flag was set
    published,               \* number of frames written to the pending slot
    cpc,                     \* position of the calling (main) thread
    variant,                 \* which of start / startbackup / startbackup2 runs
    observer,                \* an observer was passed
    distance_function,       \* a distance function was passed
    used_fps,                \* block size of startbackup2
    frame,                   \* frame returned by the last cap.read()
    display_frame,           \* frame chosen for display
    last_index,              \* rows already forwarded
    df_all,                  \* snapshot returned by getData()
    idx,                     \* position of the forwarding loop in df_all
    frame_buffer,            \* rows waiting for a full block
    wpc,                     \* position of the worker thread
    wframe,                  \* the worker's local frame
    sent,                    \* messages delivered to the observer
    window,                  \* display: "none", "open", "destroyed"
    stopReturned,            \* a call of stop() has returned
    err,                     \* exception raised by the step just taken, "none" otherwise
    result                   \* value returned by the last reader call

srcVars    == <<mode, cap, pos, starttime, endtime>>
slotVars   == <<frame_to_process, latest_processed_frame>>
trackVars  == <<rows, now, processed, callsAtStop>>
paramVars  == <<variant, observer, distance_function, used_fps>>
localVars  == <<frame, display_frame, last_index, df_all, idx, frame_buffer>>
outVars    == <<sent, window>>
workerVars == <<wpc, wframe>>
vars == <<mode, cap, pos, starttime, endtime, frame_to_process,
          latest_processed_frame, stop_processing, latest_frame_lock,
          processing_thread, rows, now, processed, callsAtStop, published, cpc,
          variant,
          observer, distance_function, used_fps, frame, display_frame,
          last_index, df_all, idx, frame_buffer, wpc, wframe, sent, window,
          stopReturned, err, result>>

\* value of a reader call: a number num/den, a sub-sequence of rows, or
\* nothing when the call raised
NoResult == [kind |-> "none", num |-> 0, den |-> 1, sub |-> <<>>]
Number(n, d) == [kind |-> "number", num |-> n, den |-> d, sub |-> <<>>]
Table(t) == [kind |-> "table", num |-> 0, den |-> 1, sub |-> t]
\* print("End time must be greater than start time")
Printed == [kind |-> "printed", num |-> 0, den |-> 1, sub |-> <<>>]

\* ---- construction ----
\* __init__: the source is opened (or fails to open), the slots are None, the
\* flag is False, the thread object is created but not started.
Init ==
    /\ mode \in {"CAMERA", "VIDEO"}
    /\ cap \in {"open", "unopened"}
    /\ pos = 0
    /\ starttime = NoTime /\ endtime = NoTime
    /\ frame_to_process = NoFrame
    /\ latest_processed_frame = NoFrame
    /\ stop_processing = FALSE
    /\ latest_frame_lock = "free"
    /\ processing_thread = "initial"
    /\ rows = <<>> /\ now = 0 /\ processed = <<>> /\ callsAtStop = 0
    /\ published = 0
    /\ cpc = "idle"
    /\ variant = "none" /\ observer = FALSE /\ distance_function = FALSE
    /\ used_fps = 1
    /\ frame = NoFrame /\ display_frame = NoFrame
    /\ last_index = 0 /\ df_all = <<>> /\ idx = 0 /\ frame_buffer = <<>>
    /\ wpc = "notstarted" /\ wframe = NoFrame
    /\ sent = <<>> /\ window = "none"
    /\ stopReturned = FALSE
    /\ err = "none"
    /\ result = NoResult

\* a window whose end equals its start is stored too
set_times_AllowEqual(startsec, endsec) ==
    /\ cpc = "idle"
    /\ IF mode = "VIDEO" /\ endsec >= startsec
          THEN /\ starttime' = startsec
               /\ endtime' = endsec
               /\ pos' = IF cap = "open" THEN startsec ELSE pos
          ELSE UNCHANGED <<starttime, endtime, pos>>
    /\ UNCHANGED <<mode, cap, slotVars, stop_processing, latest_frame_lock,
                   processing_thread, trackVars, published, cpc, paramVars,
                   localVars, workerVars, outVars, stopReturned>>
    /\ err' = "none"
    /\ result' = IF mode = "VIDEO" /\ ~(endsec >= startsec)
                     THEN Printed ELSE NoResult

\* ---- set_times ----
\* Stores the window and seeks the source only for a video file with
\* endsec > startsec; otherwise nothing is stored.
set_times(startsec, endsec) ==
    /\ cpc = "idle"
    /\ IF mode = "VIDEO" /\ endsec > startsec
          THEN /\ starttime' = startsec
               /\ endtime' = endsec
               /\ pos' = IF cap = "open" THEN startsec ELSE pos
          ELSE UNCHANGED <<starttime, endtime, pos>>
    /\ UNCHANGED <<mode, cap, slotVars, stop_processing, latest_frame_lock,
                   processing_thread, trackVars, published, cpc, paramVars,
                   localVars, workerVars, outVars, stopReturned>>
    /\ err' = "none"
    /\ result' = IF mode = "VIDEO" /\ ~(endsec > startsec)
                     THEN Printed ELSE NoResult

\* a thread object that can be started again once it has ended
ThreadCanStart_Again(t) == t # "started"

\* ---- threading.Thread.start ----
\* A thread object can be started once; a second start raises RuntimeError.
ThreadCanStart(t) == t = "initial"

\* ---- start / startbackup / startbackup2: entry ----
\* The locals are set, the worker thread is started and the loop is entered.
\* When the thread was started before, Thread.start raises and the call ends
\* there: stop() is not reached.  Such a call is made while no call is
\* running or, from another thread, while the capture loop sleeps in its
\* pacing step.
StartCall(v, obs, dist, fps) ==
    IF ThreadCanStart(processing_thread)
       THEN /\ cpc = "idle"
            /\ variant' = v
            /\ observer' = obs
            /\ distance_function' = dist
            /\ used_fps' = fps
            /\ last_index' = 0
            /\ frame_buffer' = <<>>
            /\ processing_thread' = "started"
            /\ wpc' = "check"
            /\ cpc' = "open"
            /\ err' = "none" /\ result' = NoResult
            /\ UNCHANGED <<srcVars, slotVars, stop_processing,
                           latest_frame_lock, trackVars, published, frame,
                           display_frame, df_all, idx, wframe, outVars,
                           stopReturned>>
       ELSE /\ cpc \in {"idle", "pace"}
            /\ err' = "RuntimeError: threads can only be started once"
            /\ result' = NoResult
            /\ UNCHANGED <<srcVars, slotVars, stop_processing,
                           latest_frame_lock, processing_thread, trackVars,
                           published, cpc, paramVars, localVars, workerVars,
                           outVars, stopReturned>>

start(obs) == StartCall("start", obs, FALSE, 1)
startbackup == StartCall("startbackup", FALSE, FALSE, 1)
startbackup2(obs, dist, fps) == StartCall("startbackup2", obs, dist, fps)

\* ---- the Frame Tracker (CameraPoseTracker) ----
\* get_dataframe returns a snapshot of the TimeSeries.
get_dataframe == rows

getData == get_dataframe

\* process_frame(f) at wall-clock time t: a row stamped t is appended when
\* the backend detects a pose in f, no row otherwise.
process_frame(f, t, detected) ==
    IF detected THEN Append(rows, [timestamp |-> t, frame |-> f]) ELSE rows

\* ---- the capture loop ----
\* while self.cap.isOpened()
LoopHead ==
    /\ cpc = "open"
    /\ cpc' = IF cap = "open" THEN "read" ELSE "stop"
    /\ UNCHANGED <<srcVars, slotVars, stop_processing, latest_frame_lock,
                   processing_thread, trackVars, published, paramVars,
                   localVars, workerVars, outVars, stopReturned, result>>
    /\ err' = "none"

\* ret, frame = self.cap.read(); if not ret: break
Read ==
    /\ cpc = "read"
    /\ IF pos < NumFrames
          THEN /\ pos' = pos + 1
               /\ frame' = pos + 1
               /\ cpc' = "lock"
          ELSE /\ cpc' = "stop"
               /\ UNCHANGED <<pos, frame>>
    /\ UNCHANGED <<mode, cap, starttime, endtime, slotVars, stop_processing,
                   latest_frame_lock, processing_thread, trackVars, published,
                   paramVars, display_frame, last_index, df_all, idx,
                   frame_buffer, workerVars, outVars, stopReturned, result>>
    /\ err' = "none"

\* with self.latest_frame_lock: (entry)
MainAcquire ==
    /\ cpc = "lock"
    /\ latest_frame_lock = "free"
    /\ latest_frame_lock' = "main"
    /\ cpc' = "publish"
    /\ UNCHANGED <<srcVars, slotVars, stop_processing, processing_thread,
                   trackVars, published, paramVars, localVars, workerVars,
                   outVars, stopReturned, result>>
    /\ err' = "none"

\* a publish step that keeps a frame the worker has not taken over yet
PublishedFrame_KeepPending(pending, f) == IF pending # NoFrame THEN pending ELSE f

\* the frame written to the pending slot
PublishedFrame(pending, f) == f

\* a display step that always shows the frame just read
DisplayChoice_Raw(lpf, f) == f

\* the frame chosen for display
DisplayChoice(lpf, f) == IF lpf # NoFrame THEN lpf ELSE f

\* self.frame_to_process = frame.copy(); display_frame = ...; lock released
Publish ==
    /\ cpc = "publish"
    /\ frame_to_process' = PublishedFrame(frame_to_process, frame)
    /\ display_frame' = DisplayChoice(latest_processed_frame, frame)
    /\ published' = published + 1
    /\ latest_frame_lock' = "free"
    /\ cpc' = "endcheck"
    /\ UNCHANGED <<srcVars, latest_processed_frame, stop_processing,
                   processing_thread, trackVars, paramVars, frame, last_index,
                   df_all, idx, frame_buffer, workerVars, outVars,
                   stopReturned, result>>
    /\ err' = "none"

\* current_msec > self.endtime * 1000, with an end time set
PastEnd(e, p) == e # NoTime /\ p * 1000 > e * 1000

\* an end-time check that returns from the start call instead of leaving
\* the loop
EndCheck_Return ==
    /\ cpc = "endcheck"
    /\ cpc' = IF PastEnd(endtime, pos) THEN "idle" ELSE "display"
    /\ UNCHANGED <<srcVars, slotVars, stop_processing, latest_frame_lock,
                   processing_thread, trackVars, published, paramVars,
                   localVars, workerVars, outVars, stopReturned, result>>
    /\ err' = "none"

\* if self.endtime is not None: if current_msec > self.endtime * 1000: break
EndCheck ==
    /\ cpc = "endcheck"
    /\ cpc' = IF PastEnd(endtime, pos) THEN "stop" ELSE "display"
    /\ UNCHANGED <<srcVars, slotVars, stop_processing, latest_frame_lock,
                   processing_thread, trackVars, published, paramVars,
                   localVars, workerVars, outVars, stopReturned, result>>
    /\ err' = "none"

\* cv2.imshow("Pose Tracking", display_frame)
Display ==
    /\ cpc = "display"
    /\ window' = "open"
    /\ cpc' = IF variant = "startbackup" THEN "pace" ELSE "getdata"
    /\ UNCHANGED <<srcVars, slotVars, stop_processing, latest_frame_lock,
                   processing_thread, trackVars, published, paramVars,
                   localVars, workerVars, sent, stopReturned, result>>
    /\ err' = "none"

\* rows of a snapshot not yet handled: df_all.iloc[last_index:]
NewRows(df, li) == SubSeq(df, li + 1, Len(df))

HasNewRows(df, li) == df # <<>> /\ Len(df) > li

\* start: df_all = self.getData(); the forwarding loop is entered when
\* there are new rows
GetDataStart ==
    /\ cpc = "getdata"
    /\ variant = "start"
    /\ df_all' = getData
    /\ IF HasNewRows(df_all', last_index)
          THEN idx' = last_index /\ cpc' = "forward"
          ELSE idx' = idx /\ cpc' = "pace"
    /\ UNCHANGED <<srcVars, slotVars, stop_processing, latest_frame_lock,
                   processing_thread, trackVars, published, paramVars, frame,
                   display_frame, last_index, frame_buffer, workerVars,
                   outVars, stopReturned, result>>
    /\ err' = "none"

\* a pointer that is not moved
NextIndex_Stale(li, df) == li

\* the pointer after a snapshot has been forwarded: last_index = len(df_all)
NextIndex(li, df) == Len(df)

\* for idx, row in new_rows.iterrows(): one message per row when an observer
\* was given; after the last row last_index = len(df_all)
Forward ==
    /\ cpc = "forward"
    /\ IF idx < Len(df_all)
          THEN /\ sent' = IF observer
                             THEN Append(sent, [what |-> 1, obj |-> df_all[idx + 1]])
                             ELSE sent
               /\ idx' = idx + 1
               /\ UNCHANGED <<last_index, cpc>>
          ELSE /\ last_index' = NextIndex(last_index, df_all)
               /\ cpc' = "pace"
               /\ UNCHANGED <<sent, idx>>
    /\ UNCHANGED <<srcVars, slotVars, stop_processing, latest_frame_lock,
                   processing_thread, trackVars, published, paramVars, frame,
                   display_frame, df_all, frame_buffer, workerVars, window,
                   stopReturned, result>>
    /\ err' = "none"

\* startbackup2: df_all = self.getData(); the new rows are appended to
\* frame_buffer and last_index = len(df_all)
GetDataBlock ==
    /\ cpc = "getdata"
    /\ variant = "startbackup2"
    /\ df_all' = getData
    /\ IF HasNewRows(df_all', last_index)
          THEN /\ frame_buffer' = frame_buffer \o NewRows(df_all', last_index)
               /\ last_index' = NextIndex(last_index, df_all')
          ELSE UNCHANGED <<frame_buffer, last_index>>
    /\ cpc' = "block"
    /\ UNCHANGED <<srcVars, slotVars, stop_processing, latest_frame_lock,
                   processing_thread, trackVars, published, paramVars, frame,
                   display_frame, idx, workerVars, outVars, stopReturned,
                   result>>
    /\ err' = "none"

\* buffer_df = frame_buffer[:used_fps]
BlockOf(buf, n) == SubSeq(buf, 1, n)

\* a buffer that keeps the last row of the block it hands out
BlockRest_Overlap(buf, n) == SubSeq(buf, n, Len(buf))

\* frame_buffer = frame_buffer[used_fps:]
BlockRest(buf, n) == SubSeq(buf, n + 1, Len(buf))

\* the message of a block: distance_function(buffer_df) is represented by
\* its argument, with the timestamps of the first and last row
BlockMessage(buffer_df) ==
    [what |-> 1,
     obj |-> [movement |-> buffer_df,
              start_time |-> buffer_df[1].timestamp,
              end_time |-> buffer_df[Len(buffer_df)].timestamp]]

\* if len(frame_buffer) >= used_fps and distance_function is not None: ...
Block ==
    /\ cpc = "block"
    /\ IF Len(frame_buffer) >= used_fps /\ distance_function
          THEN /\ frame_buffer' = BlockRest(frame_buffer, used_fps)
               /\ sent' = IF observer
                             THEN Append(sent, BlockMessage(BlockOf(frame_buffer, used_fps)))
                             ELSE sent
          ELSE UNCHANGED <<frame_buffer, sent>>
    /\ cpc' = "pace"
    /\ UNCHANGED <<srcVars, slotVars, stop_processing, latest_frame_lock,
                   processing_thread, trackVars, published, paramVars, frame,
                   display_frame, last_index, df_all, idx, workerVars, window,
                   stopReturned, result>>
    /\ err' = "none"

\* time.sleep(remaining_time) when the iteration was faster than the
\* interval: at the end of an iteration one frame interval has passed
Pace ==
    /\ cpc = "pace"
    /\ now' = now + 1
    /\ cpc' = "key"
    /\ UNCHANGED <<srcVars, slotVars, stop_processing, latest_frame_lock,
                   processing_thread, rows, processed, callsAtStop, published,
                   paramVars, localVars, workerVars, outVars, stopReturned,
                   result>>
    /\ err' = "none"

\* if cv2.waitKey(1) & 0xFF == ord('q'): break
Key ==
    /\ cpc = "key"
    /\ \E q \in BOOLEAN : cpc' = IF q THEN "stop" ELSE "open"
    /\ UNCHANGED <<srcVars, slotVars, stop_processing, latest_frame_lock,
                   processing_thread, trackVars, published, paramVars,
                   localVars, workerVars, outVars, stopReturned, result>>
    /\ err' = "none"

\* ---- the background worker: _processing_thread_func ----
\* a worker loop that never tests the flag
WorkerCheck_IgnoreFlag ==
    /\ wpc = "check"
    /\ Len(processed) < MaxCalls
    /\ wpc' = "lock"
    /\ UNCHANGED <<srcVars, slotVars, stop_processing, latest_frame_lock,
                   processing_thread, trackVars, published, cpc, paramVars,
                   localVars, wframe, outVars, stopReturned, result>>
    /\ err' = "none"

\* while not self.stop_processing: the loop is left, and the thread ends,
\* when the flag is set
WorkerCheck ==
    /\ wpc = "check"
    /\ IF stop_processing
          THEN /\ wpc' = "exited"
               /\ processing_thread' = "stopped"
          ELSE /\ Len(processed) < MaxCalls
               /\ wpc' = "lock"
               /\ UNCHANGED processing_thread
    /\ UNCHANGED <<srcVars, slotVars, stop_processing, latest_frame_lock,
                   trackVars, published, cpc, paramVars, localVars, wframe,
                   outVars, stopReturned, result>>
    /\ err' = "none"

\* with self.latest_frame_lock: (entry of the first block)
WorkerAcquire ==
    /\ wpc = "lock"
    /\ latest_frame_lock = "free"
    /\ latest_frame_lock' = "worker"
    /\ wpc' = "copy"
    /\ UNCHANGED <<srcVars, slotVars, stop_processing, processing_thread,
                   trackVars, published, cpc, paramVars, localVars, wframe,
                   outVars, stopReturned, result>>
    /\ err' = "none"

\* a worker that empties the pending slot when it takes the frame
PendingAfterCopy_Cleared(pending) == NoFrame

\* the pending slot after the worker has copied it out
PendingAfterCopy(pending) == pending

\* a worker that keeps the lock while it processes the frame
WorkerCopy_KeepLock ==
    /\ wpc = "copy"
    /\ wframe' = frame_to_process
    /\ frame_to_process' = PendingAfterCopy(frame_to_process)
    /\ latest_frame_lock' = "worker"
    /\ wpc' = IF frame_to_process # NoFrame THEN "process" ELSE "sleep"
    /\ UNCHANGED <<srcVars, latest_processed_frame, stop_processing,
                   processing_thread, trackVars, published, cpc, paramVars,
                   localVars, outVars, stopReturned, result>>
    /\ err' = "none"

\* frame = self.frame_to_process.copy() or None; the lock is released
WorkerCopy ==
    /\ wpc = "copy"
    /\ wframe' = frame_to_process
    /\ frame_to_process' = PendingAfterCopy(frame_to_process)
    /\ latest_frame_lock' = "free"
    /\ wpc' = IF frame_to_process # NoFrame THEN "process" ELSE "sleep"
    /\ UNCHANGED <<srcVars, latest_processed_frame, stop_processing,
                   processing_thread, trackVars, published, cpc, paramVars,
                   localVars, outVars, stopReturned, result>>
    /\ err' = "none"

\* self.tracker.process_frame(frame), outside the lock
WorkerProcess ==
    /\ wpc = "process"
    /\ \E detected \in BOOLEAN : rows' = process_frame(wframe, now, detected)
    /\ processed' = Append(processed, wframe)
    /\ wpc' = "lock2"
    /\ UNCHANGED <<srcVars, slotVars, stop_processing, latest_frame_lock,
                   processing_thread, now, callsAtStop, published, cpc,
                   paramVars, localVars, wframe, outVars, stopReturned,
                   result>>
    /\ err' = "none"

\* with self.latest_frame_lock: (entry of the second block)
WorkerAcquire2 ==
    /\ wpc = "lock2"
    /\ latest_frame_lock = "free"
    /\ latest_frame_lock' = "worker"
    /\ wpc' = "store"
    /\ UNCHANGED <<srcVars, slotVars, stop_processing, processing_thread,
                   trackVars, published, cpc, paramVars, localVars, wframe,
                   outVars, stopReturned, result>>
    /\ err' = "none"

\* self.latest_processed_frame = frame; the lock is released
WorkerStore ==
    /\ wpc = "store"
    /\ latest_processed_frame' = wframe
    /\ latest_frame_lock' = "free"
    /\ wpc' = "check"
    /\ UNCHANGED <<srcVars, frame_to_process, stop_processing,
                   processing_thread, trackVars, published, cpc, paramVars,
                   localVars, wframe, outVars, stopReturned, result>>
    /\ err' = "none"

\* time.sleep(0.001)
WorkerSleep ==
    /\ wpc = "sleep"
    /\ wpc' = "check"
    /\ UNCHANGED <<srcVars, slotVars, stop_processing, latest_frame_lock,
                   processing_thread, trackVars, published, cpc, paramVars,
                   localVars, wframe, outVars, stopReturned, result>>
    /\ err' = "none"

\* ---- stop ----
\* self.stop_processing = True; stop() is entered from the end of the loop
\* or called directly while no start call is running
StopSetFlag ==
    /\ cpc \in {"stop", "idle"}
    /\ stop_processing' = TRUE
    /\ callsAtStop' = IF stop_processing THEN callsAtStop ELSE Len(processed)
    /\ cpc' = "join"
    /\ err' = "none" /\ result' = NoResult
    /\ UNCHANGED <<srcVars, slotVars, latest_frame_lock, processing_thread,
                   rows, now, processed, published, paramVars, localVars,
                   workerVars, outVars, stopReturned>>

\* a join that does not wait for a running thread
JoinReturns_NoWait(t) == t # "initial"

\* a join that raises on every thread that is not running
JoinRaises_NotRunning(t) == t # "started"

\* a join that returns at once on a thread that was never started
JoinReturns_Unstarted(t) == t # "started"

\* threading.Thread.join: returns once the thread has ended, raises when the
\* thread was never started, blocks while it runs
JoinReturns(t) == t = "stopped"
JoinRaises(t) == t = "initial"

\* self.processing_thread.join()
StopJoin ==
    /\ cpc = "join"
    /\ \/ /\ JoinReturns(processing_thread)
          /\ cpc' = "release"
          /\ err' = "none"
       \/ /\ JoinRaises(processing_thread)
          /\ cpc' = "idle"
          /\ err' = "RuntimeError: cannot join thread before it is started"
    /\ UNCHANGED <<srcVars, slotVars, stop_processing, latest_frame_lock,
                   processing_thread, trackVars, published, paramVars,
                   localVars, workerVars, outVars, stopReturned, result>>

\* self.cap.release()
StopRelease ==
    /\ cpc = "release"
    /\ cap' = "released"
    /\ cpc' = "destroy"
    /\ UNCHANGED <<mode, pos, starttime, endtime, slotVars, stop_processing,
                   latest_frame_lock, processing_thread, trackVars, published,
                   paramVars, localVars, workerVars, outVars, stopReturned,
                   result>>
    /\ err' = "none"

\* cv2.destroyAllWindows(); stop() returns, and so does the start call that
\* ran it: its locals are gone
StopDestroy ==
    /\ cpc = "destroy"
    /\ window' = IF window = "none" THEN "none" ELSE "destroyed"
    /\ stopReturned' = TRUE
    /\ cpc' = "idle"
    /\ frame' = NoFrame /\ display_frame' = NoFrame
    /\ last_index' = 0 /\ df_all' = <<>> /\ idx' = 0 /\ frame_buffer' = <<>>
    /\ err' = "none" /\ result' = NoResult
    /\ UNCHANGED <<srcVars, slotVars, stop_processing, latest_frame_lock,
                   processing_thread, trackVars, published, paramVars,
                   workerVars, sent>>

\* ---- readers of the TimeSeries ----
\* df.iloc[0] and timestamps[0] raise IndexError on an empty table
Raises(df) == df = <<>>

\* an interval that leaves out its upper end
InInterval_Open(r, lo, hi) == r.timestamp >= lo /\ r.timestamp < hi

\* df[(df['timestamp'] >= t0 + start_sec) & (df['timestamp'] <= t0 + end_sec)]
InInterval(r, lo, hi) == r.timestamp >= lo /\ r.timestamp <= hi

filter_interval(df, start_sec, end_sec) ==
    LET t0 == df[1].timestamp
        keep(r) == InInterval(r, t0 + start_sec, t0 + end_sec)
    IN  Table(SelectSeq(df, keep))

\* duration = timestamps[-1] - timestamps[0]
Duration(df) == df[Len(df)].timestamp - df[1].timestamp

movement_per_second(df, total_movement) ==
    IF Duration(df) <= 0 THEN Number(0, 1)
    ELSE Number(total_movement, Duration(df))

movement_per_frame(df, total_movement) ==
    IF Len(df) <= 1 THEN Number(0, 1)
    ELSE Number(total_movement, Len(df) - 1)

normalized_movement_index(df, total_movement, num_landmarks) ==
    IF Duration(df) <= 0 \/ num_landmarks <= 0 THEN Number(0, 1)
    ELSE Number(total_movement, Duration(df) * num_landmarks)

movement_per_landmark(total_movement, num_landmarks) ==
    IF num_landmarks <= 0 THEN Number(0, 1)
    ELSE Number(total_movement, num_landmarks)

\* a reader that drops the first row of the table it works on
RowsAfterRead_InPlace(df) == IF df = <<>> THEN df ELSE Tail(df)

\* the TimeSeries after a reader call: readers work on the snapshot
RowsAfterRead(df) == df

\* a reader call that needs the first row: it raises on an empty table
ReadFirstRow(value) ==
    /\ cpc = "idle"
    /\ IF Raises(getData)
          THEN /\ err' = "IndexError"
               /\ result' = NoResult
          ELSE /\ err' = "none"
               /\ result' = value
    /\ rows' = RowsAfterRead(rows)
    /\ UNCHANGED <<srcVars, slotVars, stop_processing, latest_frame_lock,
                   processing_thread, now, processed, callsAtStop, published,
                   cpc, paramVars, localVars, workerVars, outVars,
                   stopReturned>>

\* a reader call that never touches a row
ReadAny(value) ==
    /\ cpc = "idle"
    /\ err' = "none"
    /\ result' = value
    /\ rows' = RowsAfterRead(rows)
    /\ UNCHANGED <<srcVars, slotVars, stop_processing, latest_frame_lock,
                   processing_thread, now, processed, callsAtStop, published,
                   cpc, paramVars, localVars, workerVars, outVars,
                   stopReturned>>

CallFilterInterval ==
    \E a \in 0 .. MaxSec, b \in 0 .. MaxSec :
        ReadFirstRow(filter_interval(getData, a, b))

CallMovementPerSecond ==
    \E total \in Totals :
        ReadFirstRow(movement_per_second(getData, total))

CallMovementPerFrame ==
    \E total \in Totals :
        ReadAny(movement_per_frame(getData, total))

CallNormalizedMovementIndex ==
    \E total \in Totals, n \in LandmarkCounts :
        ReadFirstRow(normalized_movement_index(getData, total, n))

CallMovementPerLandmark ==
    \E total \in Totals, n \in LandmarkCounts :
        ReadAny(movement_per_landmark(total, n))

CallGetData == ReadAny(Table(getData))

\* ---- the calls a client makes ----
Started == processing_thread # "initial"

\* the arguments tried for set_times: a window from the start of the video,
\* a window that needs a seek, and two windows whose end is not after their
\* start
TimeArgs == {<<0, 1>>, <<1, 2>>, <<1, 1>>, <<2, 1>>}

CallSetTimes == \E a \in TimeArgs : set_times(a[1], a[2])

\* The three variants differ with a camera as they do with a file: with a
\* file the client runs any of them, with a camera the plain one.  A call
\* on a session that was started before is tried for every variant.
Tried(v) == mode = "VIDEO" \/ v = "startbackup" \/ Started

CallStart == Tried("start") /\ \E obs \in BOOLEAN : start(obs)

CallStartBackup == Tried("startbackup") /\ startbackup

\* the arguments tried for startbackup2: every block size with an observer
\* and a distance function, and each of the two left out
BlockArgs ==
    {<<TRUE, TRUE, fps>> : fps \in 1 .. MaxBlock}
        \cup {<<FALSE, TRUE, 1>>, <<TRUE, FALSE, 1>>}

CallStartBackup2 ==
    Tried("startbackup2") /\ \E a \in BlockArgs : startbackup2(a[1], a[2], a[3])

\* steps of the thread that runs the capture loop and stop()
MainStep ==
    \/ LoopHead \/ Read \/ MainAcquire \/ Publish \/ EndCheck \/ Display
    \/ GetDataStart \/ Forward \/ GetDataBlock \/ Block \/ Pace \/ Key
    \/ StopSetFlag \/ StopJoin \/ StopRelease \/ StopDestroy

WorkerStep ==
    \/ WorkerCheck \/ WorkerAcquire \/ WorkerCopy \/ WorkerProcess
    \/ WorkerAcquire2 \/ WorkerStore \/ WorkerSleep

ClientStep ==
    \/ CallSetTimes \/ CallStart \/ CallStartBackup \/ CallStartBackup2
    \/ CallFilterInterval \/ CallMovementPerSecond \/ CallMovementPerFrame
    \/ CallNormalizedMovementIndex \/ CallMovementPerLandmark \/ CallGetData

Next == MainStep \/ WorkerStep \/ ClientStep

Spec == Init /\ [][Next]_vars

\* steps of a running start call (the capture loop and the stop() it ends in)
LoopStep == cpc # "idle" /\ MainStep

\* Scheduling: both threads keep running, and a thread waiting for the lock
\* gets it when the lock is free again and again.
FairSpec ==
    /\ Spec
    /\ WF_vars(LoopStep)
    /\ SF_vars(MainAcquire)
    /\ WF_vars(WorkerStep)

\* ---- session states ----
Stopped == stopReturned /\ processing_thread = "stopped" /\ cap = "released"
InLoop == cpc \in {"open", "read", "lock", "publish", "endcheck", "display",
                   "getdata", "forward", "block", "pace", "key"}
NonDecreasing(df) ==
    \A i \in 1 .. Len(df) - 1 : df[i].timestamp <= df[i + 1].timestamp

\* ---- C1 ----
\* Publishing never waits for the worker: while the capture loop wants the
\* lock, the lock is free or the worker is inside one of its two short
\* blocks (never in process_frame or asleep); the publish step itself is
\* always possible, and after it the single pending slot holds the frame
\* just read, whatever it held before.
C1_PublishNeverWaits ==
    /\ [](cpc = "lock" =>
            \/ latest_frame_lock = "free"
            \/ latest_frame_lock = "worker" /\ wpc \in {"copy", "store"})
    /\ [](cpc = "publish" => latest_frame_lock = "main" /\ ENABLED Publish)
    /\ [][(cpc = "publish" /\ cpc' # "publish") =>
            /\ frame_to_process' = frame
            /\ frame_to_process' \in 1 .. NumFrames
            /\ latest_frame_lock' = "free"]_vars

\* an unprocessed frame is overwritten while the worker is in process_frame
C1_Witness ==
    /\ cpc = "endcheck" /\ frame_to_process = 2
    /\ wpc = "process" /\ wframe = 1

\* ---- C2 ----
\* Each published frame is passed to process_frame at most once.
C2_NoFrameTwice ==
    \A i, j \in 1 .. Len(processed) : i # j => processed[i] # processed[j]

\* ---- C3 ----
\* The TimeSeries never holds more rows than frames were published, and its
\* timestamps are non-decreasing in row order.
C3_RowsAtMostPublished == Len(rows) <= published /\ NonDecreasing(rows)

\* ---- C4 ----
\* stop() sets the flag, waits for the worker, releases the source, then the
\* display: the source is released only after the worker has exited with
\* the flag set, the display only after the source, and once stop() has
\* returned the TimeSeries and both slots do not change.
C4_StopOrder ==
    /\ [](cpc \in {"join", "release", "destroy"} => stop_processing)
    /\ [](cpc \in {"release", "destroy"} => wpc = "exited")
    /\ [](cap = "released" => stop_processing /\ wpc = "exited")
    /\ [](window = "destroyed" => cap = "released")
    /\ [](stopReturned => cap = "released")
    /\ [][stopReturned => UNCHANGED <<rows, slotVars>>]_vars

\* stop() has returned after a session in which the worker appended rows
C4_Witness ==
    stopReturned /\ cpc = "idle" /\ Len(rows) >= 2 /\ window = "destroyed"

C6_ForwardedPrefix ==
    (variant = "start" /\ observer) =>
        /\ Len(sent) <= Len(rows)
        /\ \A i \in 1 .. Len(sent) : sent[i] = [what |-> 1, obj |-> rows[i]]
        /\ (InLoop /\ cpc # "forward") => Len(sent) = last_index
        /\ cpc = "forward" => Len(sent) = idx

\* two different rows were forwarded in two iterations
C6_Witness ==
    /\ variant = "start" /\ observer /\ Len(sent) = 2
    /\ sent[1] # sent[2] /\ cpc = "pace" /\ Len(df_all) = 2 /\ pos = 2

\* ---- C7 ----
\* The TimeSeries changes only in the worker's process_frame step, and then
\* by one row appended at its end; every step of the capture loop and every
\* reader call leaves it as it was.
C7_AppendOnlyByWorker ==
    [][rows' # rows =>
          /\ wpc = "process" /\ wpc' = "lock2"
          /\ cpc' = cpc
          /\ Len(rows') = Len(rows) + 1
          /\ SubSeq(rows', 1, Len(rows)) = rows]_vars

\* filter_interval returned part of the rows and the TimeSeries kept them all
C7_Witness ==
    /\ result.kind = "table" /\ Len(rows) >= 2
    /\ Len(result.sub) = 1 /\ cpc = "idle"

\* ---- C8 ----
\* A start call on a session that was started before raises and changes
\* nothing else: no second worker, no second loop; and Stopped is terminal.
C8_SecondStartRejected ==
    /\ [][(Started /\ (CallStart \/ CallStartBackup \/ CallStartBackup2)) =>
            /\ err' = "RuntimeError: threads can only be started once"
            /\ UNCHANGED <<srcVars, slotVars, stop_processing,
                           latest_frame_lock, processing_thread, trackVars,
                           published, cpc, paramVars, localVars, workerVars,
                           outVars, stopReturned>>]_vars
    /\ [][Stopped => Stopped']_vars
    /\ [][processing_thread # "initial" => processing_thread' # "initial"]_vars
    /\ [][processing_thread = "stopped" => processing_thread' = "stopped"]_vars

\* a second start call was rejected while the first one was running
C8_Witness ==
    /\ err = "RuntimeError: threads can only be started once"
    /\ cpc = "pace" /\ wpc = "process"

\* ---- C9 ----
\* stop() on a Stopped session returns without error and leaves the flag,
\* both slots, the TimeSeries and the released source as they were.
C9_StopIdempotent ==
    /\ [][(stopReturned /\ (StopSetFlag \/ StopJoin \/ StopRelease \/ StopDestroy)) =>
            /\ err' # "RuntimeError: cannot join thread before it is started"
            /\ cpc' \in {"join", "release", "destroy", "idle"}
            /\ UNCHANGED <<stop_processing, slotVars, rows, cap,
                           processing_thread, pos>>]_vars
    /\ [](stopReturned /\ cpc = "join" => ENABLED StopJoin)
    /\ [](stopReturned => stop_processing /\ cap = "released")

\* a second stop() is at its last step
C9_Witness ==
    stopReturned /\ cpc = "destroy" /\ frame_to_process # NoFrame

\* ---- C10 ----
\* In block mode the k-th message covers exactly the rows (k-1)*B+1 .. k*B
\* of the TimeSeries (B = used_fps), and carries the timestamps of the first
\* and the last of them.
C10_BlocksContiguous ==
    (variant = "startbackup2") =>
        \A k \in 1 .. Len(sent) :
            LET m == sent[k].obj
                first == (k - 1) * used_fps + 1
                last == k * used_fps
            IN  /\ last <= Len(rows)
                /\ Len(m.movement) = used_fps
                /\ m.movement = SubSeq(rows, first, last)
                /\ m.start_time = rows[first].timestamp
                /\ m.end_time = rows[last].timestamp

\* two blocks were sent, the second one of rows that differ from the first
C10_Witness ==
    /\ variant = "startbackup2" /\ Len(sent) = 2
    /\ sent[1] # sent[2]

\* ---- C11 ----
\* Every aggregator returns 0 on a degenerate input (no row, one row, a
\* duration <= 0, num_landmarks <= 0), filter_interval returns an empty
\* table on an empty TimeSeries, and none of these calls raises.
Degenerate(df) == Len(df) <= 1 \/ Duration(df) <= 0

C11_AggregatorsTotal ==
    [][/\ (Degenerate(rows) /\ CallMovementPerSecond) =>
              (err' = "none" /\ result' = Number(0, 1))
       /\ (Len(rows) <= 1 /\ CallMovementPerFrame) =>
              (err' = "none" /\ result' = Number(0, 1))
       /\ (Degenerate(rows) /\ CallNormalizedMovementIndex) =>
              (err' = "none" /\ result' = Number(0, 1))
       /\ \A total \in Totals, n \in LandmarkCounts :
              (n <= 0 /\ ReadAny(movement_per_landmark(total, n))) =>
                  (err' = "none" /\ result' = Number(0, 1))
       /\ (rows = <<>> /\ CallFilterInterval) =>
              (err' = "none" /\ result' = Table(<<>>))]_vars

\* ---- C12 ----
\* On a non-empty TimeSeries with first timestamp t0, filter_interval(a, b)
\* returns exactly the rows with t0 + a <= timestamp <= t0 + b, in their
\* order; it is empty for a > b and the whole series for a = 0 and
\* b >= last timestamp - t0.
KeptIndexes(df, a, b) ==
    {i \in 1 .. Len(df) :
        /\ df[1].timestamp + a <= df[i].timestamp
        /\ df[i].timestamp <= df[1].timestamp + b}

NthOf(S, k) == CHOOSE i \in S : Cardinality({j \in S : j <= i}) = k

C12_FilterExact ==
    [][\A a \in 0 .. MaxSec, b \in 0 .. MaxSec :
          (rows # <<>> /\ ReadFirstRow(filter_interval(getData, a, b))) =>
              LET kept == KeptIndexes(rows, a, b)
                  sub == result'.sub
              IN  /\ err' = "none"
                  /\ result'.kind = "table"
                  /\ Len(sub) = Cardinality(kept)
                  /\ \A k \in 1 .. Len(sub) : sub[k] = rows[NthOf(kept, k)]
                  /\ a > b => sub = <<>>
                  /\ (a = 0 /\ b >= rows[Len(rows)].timestamp - rows[1].timestamp)
                        => sub = rows]_vars

\* filter_interval returned the later of two rows stamped one second apart
C12_Witness ==
    /\ cpc = "idle" /\ Len(rows) = 2
    /\ rows[2].timestamp = rows[1].timestamp + 1
    /\ result = Table(<<rows[2]>>)

\* ---- C13 ----
\* set_times stores the window and seeks only for a video file with
\* end > start.  Any other call raises nothing and leaves starttime, endtime
\* and the source position as they were, so no later session is bounded by
\* it: a stored window is always one with end > start on a video file.
C13_Step ==
    \A a \in TimeArgs :
        set_times(a[1], a[2]) =>
            /\ err' = "none"
            /\ IF mode = "VIDEO" /\ a[2] > a[1]
                  THEN starttime' = a[1] /\ endtime' = a[2]
                  ELSE UNCHANGED <<starttime, endtime, pos>>

C13_Stored ==
    /\ (starttime = NoTime) = (endtime = NoTime)
    /\ endtime # NoTime => (mode = "VIDEO" /\ endtime > starttime)

C13_SetTimesGuard == [][C13_Step]_vars /\ []C13_Stored

\* a rejected call has just printed its message on a video source that
\* still carries the window of an earlier, valid call
C13_Witness ==
    /\ result = Printed /\ mode = "VIDEO"
    /\ starttime = 0 /\ endtime = 1 /\ pos = 0

\* ---- C14 ----
\* The lock is never held while process_frame runs: the worker holds it
\* only while it copies the pending frame out and while it stores the
\* processed frame, the capture loop only while it publishes and chooses the
\* display frame.  So the capture loop can take the lock while the worker is
\* inside process_frame, and whoever waits for the lock is never stuck.
LockStep ==
    \/ MainAcquire \/ Publish
    \/ WorkerAcquire \/ WorkerCopy \/ WorkerAcquire2 \/ WorkerStore

C14_LockDiscipline ==
    /\ wpc = "process" => latest_frame_lock # "worker"
    /\ (latest_frame_lock = "worker") = (wpc \in {"copy", "store"})
    /\ (latest_frame_lock = "main") = (cpc = "publish")
    /\ (wpc = "process" /\ cpc = "lock") => ENABLED MainAcquire
    /\ (cpc = "lock" \/ wpc \in {"lock", "lock2"}) => ENABLED LockStep

\* the capture loop holds the lock while the worker is inside process_frame
C14_Witness ==
    /\ wpc = "process" /\ cpc = "publish" /\ latest_frame_lock = "main"

\* ---- C15 ----
\* The end-time check comes before the publish step: a frame read with the
\* source position past the end bound is never written to the pending slot,
\* so it is never processed and gets no row.
C15_NoPublishPastEnd ==
    [][(cpc = "publish" /\ cpc' # "publish") => ~PastEnd(endtime, pos)]_vars

\* ---- C16 ----
\* Stopping is cooperative.  After the flag is set the worker finishes the
\* iteration it is in, so it makes at most one further process_frame call,
\* and leaves only at its loop test.  While the worker has not exited, stop()
\* cannot pass its join, has not returned and has not released the source; as
\* every process_frame call returns, the worker exits and stop() returns.
C16_AtMostOneMore ==
    /\ stop_processing => Len(processed) <= callsAtStop + 1
    /\ (cpc = "join" /\ processing_thread = "started") => ~ENABLED StopJoin
    /\ processing_thread = "started" => (cap # "released" /\ ~stopReturned)

C16_ExitOnlyAtTest ==
    /\ (wpc # "exited" /\ wpc' = "exited") => (wpc = "check" /\ stop_processing)
    /\ (wpc = "check" /\ stop_processing /\ wpc' # wpc) => wpc' = "exited"
    /\ (wpc = "process" /\ wpc' # wpc) =>
           (wpc' = "lock2" /\ Len(processed') = Len(processed) + 1)

C16_CooperativeStop ==
    /\ []C16_AtMostOneMore
    /\ [][C16_ExitOnlyAtTest]_vars
    /\ (stop_processing /\ processing_thread = "started") ~> (wpc = "exited")
    /\ (cpc = "join" /\ processing_thread # "initial") ~> stopReturned

\* stop() has returned after the worker made one more call than it had made
\* when the flag was set
C16_Witness ==
    /\ stopReturned /\ wpc = "exited"
    /\ Len(processed) = callsAtStop + 1

\* ---- C17 ----
\* The frame rendered in an iteration is the latest processed frame when one
\* has been stored, and the frame just read otherwise.  Once set, the
\* latest-processed slot is never reset to empty and always holds a frame
\* that the capture loop published before.
C17_Chosen ==
    (cpc = "publish" /\ cpc' # "publish") =>
        display_frame' = IF latest_processed_frame = NoFrame
                            THEN frame
                            ELSE latest_processed_frame

C17_SlotKept == latest_processed_frame # NoFrame => latest_processed_frame' # NoFrame

C17_SlotPublished ==
    latest_processed_frame # NoFrame =>
        /\ published > 0
        /\ latest_processed_frame <= frame_to_process
        /\ \E i \in 1 .. Len(processed) : processed[i] = latest_processed_frame

C17_DisplayFallback ==
    [][C17_Chosen]_vars /\ [][C17_SlotKept]_vars /\ []C17_SlotPublished

\* the window is about to show processed frame 1 while frame 2 was just read
C17_Witness ==
    /\ cpc = "display" /\ frame = 2 /\ display_frame = 1
    /\ latest_processed_frame = 1

\* ---- C18 ----
\* The pending slot is empty only before the first publication: nothing
\* clears it afterwards, so from then on every copy-out of the worker finds a
\* frame and the worker never takes its idle-wait branch again.
C18_Slot == (frame_to_process = NoFrame) = (published = 0)

C18_Kept == frame_to_process # NoFrame => frame_to_process' # NoFrame

C18_NoIdleWait ==
    (published > 0 /\ wpc = "copy" /\ wpc' # wpc) =>
        (wpc' = "process" /\ wframe' # NoFrame)

C18_PendingNeverCleared ==
    []C18_Slot /\ [][C18_Kept]_vars /\ [][C18_NoIdleWait]_vars

\* the worker is in its second call on the only frame published so far
C18_Witness ==
    /\ published = 1 /\ Len(processed) = 1 /\ wpc = "process"
    /\ wframe = frame_to_process

\* ---- C19 ----
\* stop() on an Idle session (worker thread never started) ends with an
\* error raised by the join, after the flag has been set and before the
\* source is released: the source stays open, the window is untouched and
\* the session is not Stopped.
C19_JoinStep ==
    (cpc = "join" /\ processing_thread = "initial" /\ cpc' # cpc) =>
        /\ err' = "RuntimeError: cannot join thread before it is started"
        /\ cpc' = "idle"
        /\ stop_processing'
        /\ ~stopReturned'
        /\ UNCHANGED <<cap, window, processing_thread>>

C19_AfterError ==
    /\ (cpc = "join" /\ processing_thread = "initial") => ENABLED StopJoin
    /\ err = "RuntimeError: cannot join thread before it is started" =>
           /\ stop_processing /\ ~stopReturned
           /\ cap # "released" /\ window = "none"

C19_StopOnIdleRaises == [][C19_JoinStep]_vars /\ []C19_AfterError

\* stop() on a fresh object has just raised
C19_Witness ==
    /\ err = "RuntimeError: cannot join thread before it is started"
    /\ cpc = "idle" /\ processing_thread = "initial"
    /\ stop_processing /\ cap = "open"

====
